---- MODULE Spec2Model ----
(***************************************************************************)
(* Model of mas::heap (ThirdParty/maslib/src/common/mas/core/heap.hpp):    *)
(* the in-place binary max-heap algorithms, their move-callback variants   *)
(* and the block-partitioned parallel make_heap.                           *)
(*                                                                         *)
(* Spec     : the sequential operations, applied to a bounded range.       *)
(* SeqSpec  : sequences of observer-variant calls keeping an index map.    *)
(* EdgeSpec : the operations called on an empty range.                     *)
(* ParSpec  : parallel_make_heap as a multi-threaded state machine.        *)
(* ParFair  : ParSpec with weak fairness of every thread's steps.          *)
(***************************************************************************)
EXTENDS Integers, Sequences, FiniteSets, TLC

\* ------------------------------------------------------------------ bounds
\* longest range the sequential operations are applied to
MaxLen == 6
\* keys are 0..MaxKey
MaxKey == 2
\* longest range given to parallel_make_heap
MaxParLen == 6
\* keys of the parallel build are 0..MaxParKey
MaxParKey == 1
\* largest blockSize argument
MaxBlockSize == 2
\* largest maxThreads argument
MaxThreads == 3
\* bits of size_t / SizeType kept by the model
SizeBits == 16
\* storage slots of the index-map machine
MaxSeqLen == 3
\* its keys are 0..MaxSeqKey
MaxSeqKey == 1

Keys == 0..MaxKey

\* ------------------------------------------------------------------ state
VARIABLES
    a,          \* the sequence [first, first+L), slots 0..L-1, after the callback variant ran
    n,          \* length of the live heap range [first, first+n)
    pre,        \* the sequence the last operation was applied to
    op,         \* the last operation: [name, len (last-first), pos (pos-first, or the
                \* position is_heap_until returned)]
    plain,      \* the sequence the callback-free overload leaves on the same input
    pwrites,    \* slot assignments made by the callback-free overload, in order
    calls,      \* moved(value, from, to) invocations of the last operation, in order
    writes,     \* slot assignments made by the callback overload, in order
    map         \* external index handle -> slot, written only by the observer

seqVars == <<a, n, pre, op, plain, pwrites, calls, writes, map>>

VARIABLES
    arr,             \* the range parallel_make_heap builds in place, slots 0..len-1
    orig,            \* the range as it was handed to parallel_make_heap
    blockSize,       \* argument blockSize
    maxThreads,      \* argument maxThreads
    nthreads,        \* effective thread count
    blocksRemaining, \* std::atomic<size_t>, arithmetic modulo 2^SizeBits
    barrier,         \* rolling_barrier: slot of thread i -> published value
    call,            \* position of the calling thread in parallel_make_heap's own frame
    spawned,         \* workers created so far by the spawn loop
    th,              \* per thread: position in __thread_worker / __down_block and its locals
    sifted           \* parent indices whose __down_heap call has completed

parVars == <<arr, orig, blockSize, maxThreads, nthreads, blocksRemaining, barrier,
             call, spawned, th, sifted>>

vars == <<seqVars, parVars>>

\* ------------------------------------------------------- values and helpers
\* an element: a key the comparator orders by, and a handle that identifies it
Elem(k, h) == [k |-> k, h |-> h]

\* compare(a,b) = true if a < b
compare(x, y) == x.k < y.k

\* integer division of the (signed) SizeType, truncating toward zero
CDiv(x, d) == IF x >= 0 THEN x \div d ELSE -((-x) \div d)

Len0(s) == Cardinality(DOMAIN s)

\* execution record of one library call: the sequence, the callbacks made, the
\* slot assignments made so far, and what a read outside the sequence yields
St(s) == [a |-> s, calls |-> <<>>, writes |-> <<>>, junk |-> Elem(0, 0 - 1)]

\* the same, for a call whose reads outside the sequence yield g
StWild(s, g) == [St(s) EXCEPT !.junk = g]

\* *(first + slot): inside [first, last) the slot's value; outside it the read
\* is undefined and yields whatever lies there
Deref(st, slot) == IF slot \in DOMAIN st.a THEN st.a[slot] ELSE st.junk

\* *(first + slot) = __MAS_MOVE(val)
Assign(st, slot, val) ==
    [st EXCEPT !.a[slot] = val, !.writes = Append(@, <<slot, val>>)]

\* mutation of moved: origin and destination reported the wrong way round
moved_reversed(st, from, to) ==
    [st EXCEPT !.calls = Append(@, [v |-> Deref(st, to), from |-> to, to |-> from])]

\* moved(*(first + to), from, to)
moved(st, from, to) ==
    [st EXCEPT !.calls = Append(@, [v |-> Deref(st, to), from |-> from, to |-> to])]

\* --------------------------------------------------- sift primitives (plain)
\* mutation of up_loop: `if` for `while`, the value rises one level at most
up_loop_once(st, child, parent, p) ==
    IF child > 0 /\ compare(st.a[parent], p)
    THEN Assign(Assign(st, child, st.a[parent]), parent, p)
    ELSE Assign(st, child, p)

\* __up_heap loop: while (child > 0 && compare(first[parent], p))
RECURSIVE up_loop(_, _, _, _)
up_loop(st, child, parent, p) ==
    IF child > 0 /\ compare(st.a[parent], p)
    THEN up_loop(Assign(st, child, st.a[parent]), parent, CDiv(parent - 1, 2), p)
    ELSE Assign(st, child, p)

\* mutation of up_heap: the first parent is taken as pos / 2
up_heap_half(st, pos, p) == up_loop(st, pos, CDiv(pos, 2), p)

\* __up_heap(first, pos, p, compare)
up_heap(st, pos, p) == up_loop(st, pos, CDiv(pos - 1, 2), p)

\* mutation of second_child: the second child is never looked at
second_child_first(s, length, child) == child

\* "check if second child is larger"
second_child(s, length, child) ==
    IF child < length - 1 /\ compare(s[child], s[child + 1]) THEN child + 1 ELSE child

\* mutation of parent_greater: the sift never stops above a leaf
parent_never_greater(c, p) == FALSE

\* mutation of parent_greater: the sift also stops at a child equivalent to p
parent_not_less(c, p) == ~compare(p, c)

\* "compare parent with child": parent is greater, we are done
parent_greater(c, p) == compare(c, p)

\* __down_heap loop: while (child < length)
RECURSIVE down_loop(_, _, _, _, _)
down_loop(st, length, parent, child, p) ==
    IF child < length
    THEN LET c == second_child(st.a, length, child) IN
         IF parent_greater(st.a[c], p)
         THEN Assign(st, parent, p)
         ELSE down_loop(Assign(st, parent, st.a[c]), length, c, 2 * c + 1, p)
    ELSE Assign(st, parent, p)

\* __down_heap(first, length, hole, p, compare)
down_heap(st, length, hole, p) == down_loop(st, length, hole, 2 * hole + 1, p)

\* mutation of pop_heap_impl: the sift runs over the popped slot too
pop_heap_impl_long(st, last, result) ==
    LET value == st.a[last] IN
    down_heap(Assign(st, result, st.a[0]), last + 1, 0, value)

\* __pop_heap(first, last, result, compare), last and result as offsets from first
pop_heap_impl(st, last, result) ==
    LET value == st.a[last] IN
    down_heap(Assign(st, result, st.a[0]), last, 0, value)

\* make_heap loop: for (parent = len / 2; parent-- > 0;)
RECURSIVE make_loop(_, _, _)
make_loop(st, len, parent) ==
    IF parent > 0
    THEN make_loop(down_heap(st, len, parent - 1, st.a[parent - 1]), len, parent - 1)
    ELSE st

\* make_heap(first, last, compare), len = last - first
make_heap(st, len) == make_loop(st, len, len \div 2)

\* push_heap(first, last, compare)
push_heap(st, len) ==
    LET lastPos == len - 1
        parent  == CDiv(lastPos - 1, 2) IN
    IF lastPos > 0 /\ compare(st.a[parent], st.a[len - 1])
    THEN up_heap(st, lastPos, st.a[lastPos])
    ELSE st

\* pop_heap(first, last, compare)
pop_heap(st, len) ==
    IF len > 1 THEN pop_heap_impl(st, len - 1, len - 1) ELSE st

\* mutation of sort_heap: the loop stops while two elements are left
RECURSIVE sort_heap_short(_, _)
sort_heap_short(st, len) ==
    IF len > 2 THEN sort_heap_short(pop_heap_impl(st, len - 1, len - 1), len - 1) ELSE st

\* sort_heap(first, last, compare)
RECURSIVE sort_heap(_, _)
sort_heap(st, len) ==
    IF len > 1 THEN sort_heap(pop_heap_impl(st, len - 1, len - 1), len - 1) ELSE st

\* mutation of pop_heap_pos: the displaced tail is only ever sifted down
pop_heap_pos_down(st, last, pos, result) ==
    LET value == st.a[result] IN
    down_heap(Assign(st, result, st.a[pos]), last, pos, value)

\* __pop_heap_pos(first, last, pos, result, compare), all as offsets from first
pop_heap_pos(st, last, pos, result) ==
    LET value  == st.a[result]
        st1    == Assign(st, result, st.a[pos])
        hole   == pos
        parent == CDiv(hole - 1, 2) IN
    IF pos > 0 /\ compare(st1.a[parent], value)
    THEN up_heap(st1, hole, value)
    ELSE down_heap(st1, last, hole, value)

\* pop_heap(first, last, pos, compare)
pop_heap_at(st, len, pos) ==
    IF len - pos > 1 THEN pop_heap_pos(st, len - 1, pos, len - 1) ELSE st

\* update_heap(first, last, pos, compare)
update_heap(st, len, pos) ==
    LET posd == pos IN
    IF pos > 0 /\ compare(st.a[CDiv(posd - 1, 2)], st.a[posd])
    THEN up_heap(st, posd, st.a[posd])
    ELSE down_heap(st, len, posd, st.a[posd])

\* mutation of until_loop: the second child of a parent is never compared
RECURSIVE until_loop_skip(_, _, _, _)
until_loop_skip(s, last, parent, child) ==
    IF child < last
    THEN IF compare(s[parent], s[child]) THEN child
         ELSE until_loop_skip(s, last, parent + 1, child + 2)
    ELSE last

\* is_heap_until loop: for (child = first + 1; child < last; child++)
RECURSIVE until_loop(_, _, _, _)
until_loop(s, last, parent, child) ==
    IF child < last
    THEN IF compare(s[parent], s[child]) THEN child
         ELSE IF child + 1 < last /\ compare(s[parent], s[child + 1]) THEN child + 1
         ELSE until_loop(s, last, parent + 1, child + 2)
    ELSE last

\* is_heap_until(first, last, compare), the result as an offset from first
is_heap_until(s, len) == until_loop(s, len, 0, 1)

\* is_heap(first, last, compare)
is_heap(s, len) == is_heap_until(s, len) = len

\* ------------------------------------------- default comparator (operator <)
\* *(first + parent) < p on the element type
less(x, y) == x.k < y.k

\* __up_heap loop, default comparator
RECURSIVE up_loop_lt(_, _, _, _)
up_loop_lt(st, child, parent, p) ==
    IF child > 0 /\ less(st.a[parent], p)
    THEN up_loop_lt(Assign(st, child, st.a[parent]), parent, CDiv(parent - 1, 2), p)
    ELSE Assign(st, child, p)

\* mutation of up_heap_lt: the value is put back where it was
up_heap_lt_stay(st, pos, p) == Assign(st, pos, p)

\* __up_heap(first, pos, p)
up_heap_lt(st, pos, p) == up_loop_lt(st, pos, CDiv(pos - 1, 2), p)

\* push_heap(first, last)
push_heap_lt(st, len) ==
    LET lastPos == len - 1
        parent  == CDiv(lastPos - 1, 2) IN
    IF lastPos > 0 /\ less(st.a[parent], st.a[len - 1])
    THEN up_heap_lt(st, lastPos, st.a[lastPos])
    ELSE st

\* ------------------------------------------------ sift primitives (callback)
\* mutation of up_loop_cb: the sift stops after one level
up_loop_cb_once(st, child, parent, p, ppos) ==
    IF child > 0 /\ compare(st.a[parent], p)
    THEN moved(Assign(moved(Assign(st, child, st.a[parent]), parent, child), parent, p),
               ppos, parent)
    ELSE moved(Assign(st, child, p), ppos, child)

\* __up_heap loop, callback version
RECURSIVE up_loop_cb(_, _, _, _, _)
up_loop_cb(st, child, parent, p, ppos) ==
    IF child > 0 /\ compare(st.a[parent], p)
    THEN up_loop_cb(moved(Assign(st, child, st.a[parent]), parent, child),
                    parent, CDiv(parent - 1, 2), p, ppos)
    ELSE moved(Assign(st, child, p), ppos, child)

\* __up_heap(first, pos, p, ppos, compare, moved)
up_heap_cb(st, pos, p, ppos) == up_loop_cb(st, pos, CDiv(pos - 1, 2), p, ppos)

\* mutation of second_child_cb: of two equivalent children the second is taken
second_child_cb_ties(s, length, child) ==
    IF child < length - 1 /\ ~compare(s[child + 1], s[child]) THEN child + 1 ELSE child

\* "check if second child is larger", callback version
second_child_cb(s, length, child) ==
    IF child < length - 1 /\ compare(s[child], s[child + 1]) THEN child + 1 ELSE child

\* __down_heap loop, callback version
RECURSIVE down_loop_cb(_, _, _, _, _, _)
down_loop_cb(st, length, parent, child, p, ppos) ==
    IF child < length
    THEN LET c == second_child_cb(st.a, length, child) IN
         IF compare(st.a[c], p)
         THEN moved(Assign(st, parent, p), ppos, parent)
         ELSE down_loop_cb(moved(Assign(st, parent, st.a[c]), c, parent),
                           length, c, 2 * c + 1, p, ppos)
    ELSE moved(Assign(st, parent, p), ppos, parent)

\* __down_heap(first, length, hole, p, ppos, compare, moved)
down_heap_cb(st, length, hole, p, ppos) ==
    down_loop_cb(st, length, hole, 2 * hole + 1, p, ppos)

\* __pop_heap(first, last, result, compare, moved)
pop_heap_impl_cb(st, last, result) ==
    LET value == st.a[last]
        ppos  == last IN
    down_heap_cb(Assign(st, result, st.a[0]), ppos, 0, value, ppos)

\* __pop_heap_pos(first, last, pos, result, compare, moved)
pop_heap_pos_cb(st, last, pos, result) ==
    LET value  == st.a[last]
        st1    == Assign(st, result, st.a[pos])
        hole   == pos
        parent == CDiv(hole - 1, 2) IN
    IF pos > 0 /\ compare(st1.a[parent], value)
    THEN up_heap_cb(st1, hole, value, last)
    ELSE LET ppos == last IN down_heap_cb(st1, ppos, hole, value, ppos)

\* make_heap loop, callback version
RECURSIVE make_loop_cb(_, _, _)
make_loop_cb(st, len, parent) ==
    IF parent > 0
    THEN make_loop_cb(down_heap_cb(st, len, parent - 1, st.a[parent - 1], parent - 1),
                      len, parent - 1)
    ELSE st

\* make_heap(first, last, compare, moved)
make_heap_cb(st, len) == make_loop_cb(st, len, len \div 2)

\* mutation of push_heap_cb: no callback when no sift is needed
push_heap_cb_quiet(st, len) ==
    LET lastPos == len - 1
        parent  == CDiv(lastPos - 1, 2) IN
    IF lastPos > 0 /\ compare(st.a[parent], st.a[len - 1])
    THEN up_heap_cb(st, lastPos, st.a[lastPos], lastPos)
    ELSE st

\* mutation of push_heap_cb: the tail is reported in place before it is sifted
push_heap_cb_twice(st, len) ==
    LET lastPos == len - 1
        parent  == CDiv(lastPos - 1, 2) IN
    IF lastPos > 0 /\ compare(st.a[parent], st.a[len - 1])
    THEN up_heap_cb(moved(st, lastPos, lastPos), lastPos, st.a[lastPos], lastPos)
    ELSE moved(st, lastPos, lastPos)

\* push_heap(first, last, compare, moved)
push_heap_cb(st, len) ==
    LET lastPos == len - 1
        parent  == CDiv(lastPos - 1, 2) IN
    IF lastPos > 0 /\ compare(st.a[parent], st.a[len - 1])
    THEN up_heap_cb(st, lastPos, st.a[lastPos], lastPos)
    ELSE moved(st, lastPos, lastPos)

\* mutation of pop_heap_cb: the landing of the root at the back is not reported
pop_heap_cb_silent(st, len) ==
    IF len > 1 THEN pop_heap_impl_cb(st, len - 1, len - 1) ELSE st

\* pop_heap(first, last, compare, moved)
pop_heap_cb(st, len) ==
    LET st1 == IF len > 1 THEN pop_heap_impl_cb(st, len - 1, len - 1) ELSE st IN
    moved(st1, 0, len - 1)

\* mutation of pop_heap_at_cb: the landing is reported as coming from the root
pop_heap_at_cb_root(st, len, pos) ==
    LET st1 == IF len - pos > 1 THEN pop_heap_pos_cb(st, len - 1, pos, len - 1) ELSE st IN
    moved(st1, 0, len - 1)

\* pop_heap(first, last, pos, compare, moved)
pop_heap_at_cb(st, len, pos) ==
    LET st1 == IF len - pos > 1 THEN pop_heap_pos_cb(st, len - 1, pos, len - 1) ELSE st IN
    moved(st1, pos, len - 1)

\* sort_heap(first, last, compare, moved)
RECURSIVE sort_heap_cb(_, _)
sort_heap_cb(st, len) ==
    IF len > 1
    THEN sort_heap_cb(moved(pop_heap_impl_cb(st, len - 1, len - 1), 0, len - 1), len - 1)
    ELSE st

\* update_heap(first, last, pos, compare, moved)
update_heap_cb(st, len, pos) ==
    LET posd == pos IN
    IF pos > 0 /\ compare(st.a[CDiv(posd - 1, 2)], st.a[posd])
    THEN up_heap_cb(st, posd, st.a[posd], posd)
    ELSE down_heap_cb(st, len, posd, st.a[posd], posd)

\* the parallel build is not running
ParIdle ==
    /\ arr = <<>>
    /\ orig = <<>>
    /\ blockSize = 1
    /\ maxThreads = 1
    /\ nthreads = 0
    /\ blocksRemaining = 0
    /\ barrier = <<>>
    /\ call = "none"
    /\ spawned = 0
    /\ th = <<>>
    /\ sifted = {}

\* ------------------------------------------------------ sequential machine
\* heap property H on [first, first+len): no child compares greater than its parent
H(s, len) == \A i \in 1..(len - 1) : ~compare(s[(i - 1) \div 2], s[i])

\* the observer of the external index: map[handle(value)] := to on every call;
\* a value that is no element of the storage has no entry to write
RECURSIVE Observe(_, _)
Observe(m, cs) ==
    IF cs = <<>> THEN m
    ELSE IF Head(cs).v.h \in DOMAIN m
         THEN Observe([m EXCEPT ![Head(cs).v.h] = Head(cs).to], Tail(cs))
         ELSE Observe(m, Tail(cs))

\* ranges of length L with handle i in slot i
Ranges(L) == { [i \in 0..(L - 1) |-> Elem(ks[i], i)] : ks \in [0..(L - 1) -> Keys] }

Init ==
    /\ \E L \in 0..MaxLen : a \in Ranges(L)
    /\ n \in 0..Len0(a)
    /\ pre = a
    /\ plain = a
    /\ op = [name |-> "init", len |-> Len0(a), pos |-> 0]
    /\ calls = <<>>
    /\ writes = <<>>
    /\ pwrites = <<>>
    /\ map = [h \in DOMAIN a |-> h]
    /\ ParIdle

\* one library call on `input`: cb is the callback overload's execution, pl the
\* plain overload's execution of the same call
Call(name, len, pos, input, cb, pl) ==
    /\ op.name = "init"
    /\ a' = cb.a
    /\ plain' = pl.a
    /\ pre' = input
    /\ op' = [name |-> name, len |-> len, pos |-> pos]
    /\ calls' = cb.calls
    /\ writes' = cb.writes
    /\ pwrites' = pl.writes
    /\ map' = Observe(map, cb.calls)
    /\ UNCHANGED parVars

MakeHeap ==
    /\ Call("make_heap", n, 0, a, make_heap_cb(St(a), n), make_heap(St(a), n))
    /\ n' = n

\* the caller has put a new element in slot n and extends the heap over it
PushHeap ==
    /\ n < Len0(a)
    /\ H(a, n)
    /\ Call("push_heap", n + 1, n, a, push_heap_cb(St(a), n + 1), push_heap(St(a), n + 1))
    /\ n' = n + 1

PopHeap ==
    /\ n >= 1
    /\ H(a, n)
    /\ Call("pop_heap", n, 0, a, pop_heap_cb(St(a), n), pop_heap(St(a), n))
    /\ n' = n - 1

PopHeapAt ==
    /\ n >= 1
    /\ H(a, n)
    /\ \E k \in 0..(n - 1) :
          Call("pop_heap_at", n, k, a, pop_heap_at_cb(St(a), n, k), pop_heap_at(St(a), n, k))
    /\ n' = n - 1

\* the caller has overwritten the key of slot k and repairs the heap
UpdateHeap ==
    /\ n >= 1
    /\ H(a, n)
    /\ \E k \in 0..(n - 1), key \in Keys :
          LET edited == [a EXCEPT ![k].k = key] IN
          Call("update_heap", n, k, edited,
               update_heap_cb(St(edited), n, k), update_heap(St(edited), n, k))
    /\ n' = n

SortHeap ==
    /\ H(a, n)
    /\ Call("sort_heap", n, 0, a, sort_heap_cb(St(a), n), sort_heap(St(a), n))
    /\ n' = n

\* heap sort of an arbitrary range: make_heap, then sort_heap on its result
MakeThenSort ==
    /\ Call("heap_sort", n, 0, a, sort_heap_cb(make_heap_cb(St(a), n), n),
            sort_heap(make_heap(St(a), n), n))
    /\ n' = n

\* the integers of the worked examples
ExampleInts == {3, 7, 9}

\* ranges of one to three of those integers
IntRanges ==
    UNION { { [i \in 0..(L - 1) |-> Elem(ks[i], i)] : ks \in [0..(L - 1) -> ExampleInts] } :
            L \in 1..3 }

\* push_heap(first, last) with the default comparator on a range of integers,
\* whatever its prefix is
PushHeapDefault ==
    /\ op.name = "init"
    /\ a = <<>>
    /\ \E r \in IntRanges :
          LET pl == push_heap_lt(St(r), Len0(r)) IN
          /\ a' = pl.a
          /\ plain' = pl.a
          /\ pre' = r
          /\ op' = [name |-> "push_heap_default", len |-> Len0(r), pos |-> Len0(r) - 1]
          /\ pwrites' = pl.writes
          /\ n' = Len0(r)
    /\ UNCHANGED <<calls, writes, map>>
    /\ UNCHANGED parVars

\* is_heap_until(first, last, compare): the range is only read
IsHeapUntil ==
    /\ op.name = "init"
    /\ op' = [name |-> "is_heap_until", len |-> n, pos |-> is_heap_until(a, n)]
    /\ UNCHANGED <<a, n, pre, plain, pwrites, calls, writes, map>>
    /\ UNCHANGED parVars

Next ==
    \/ IsHeapUntil
    \/ PushHeapDefault
    \/ MakeHeap
    \/ PushHeap
    \/ PopHeap
    \/ PopHeapAt
    \/ UpdateHeap
    \/ SortHeap
    \/ MakeThenSort

Spec == Init /\ [][Next]_vars

\* ------------------------------------------------- calls on an empty range
\* The operations called with first == last.  `a` is the storage that starts
\* at first; a read before first yields an arbitrary value g.
Wild == { Elem(k, 0 - 1) : k \in Keys }

EdgeInit ==
    /\ Init
    /\ n = 0

EmptyMakeHeap ==
    /\ n = 0
    /\ Call("make_heap", 0, 0, a, make_heap_cb(St(a), 0), make_heap(St(a), 0))
    /\ n' = n

EmptyPushHeap ==
    /\ n = 0
    /\ \E g \in Wild :
          Call("push_heap", 0, 0, a, push_heap_cb(StWild(a, g), 0), push_heap(StWild(a, g), 0))
    /\ n' = n

EmptyPopHeap ==
    /\ n = 0
    /\ \E g \in Wild :
          Call("pop_heap", 0, 0, a, pop_heap_cb(StWild(a, g), 0), pop_heap(StWild(a, g), 0))
    /\ n' = n

EmptySortHeap ==
    /\ n = 0
    /\ Call("sort_heap", 0, 0, a, sort_heap_cb(St(a), 0), sort_heap(St(a), 0))
    /\ n' = n

EdgeNext ==
    \/ EmptyMakeHeap
    \/ EmptyPushHeap
    \/ EmptyPopHeap
    \/ EmptySortHeap

EdgeSpec == EdgeInit /\ [][EdgeNext]_vars

\* ------------------------------------------------- the index-map machine
\* A caller's priority queue over a storage of L slots: the heap starts empty,
\* grows by push_heap over the next slot, shrinks by the two pops, and keys
\* are edited in place before update_heap.  Only the observer writes `map`.
NoSlot == 0 - 1

SeqKeys == 0..MaxSeqKey

SeqRanges(L) == { [i \in 0..(L - 1) |-> Elem(ks[i], i)] : ks \in [0..(L - 1) -> SeqKeys] }

SeqInit ==
    /\ \E L \in 0..MaxSeqLen : a \in SeqRanges(L)
    /\ n = 0
    /\ pre = a
    /\ plain = a
    /\ op = [name |-> "init", len |-> 0, pos |-> 0]
    /\ calls = <<>>
    /\ writes = <<>>
    /\ pwrites = <<>>
    /\ map = [h \in DOMAIN a |-> NoSlot]
    /\ ParIdle

\* the callback overload ran and the observer saw its calls
Observed(cb) ==
    /\ a' = cb.a
    /\ map' = Observe(map, cb.calls)
    /\ UNCHANGED <<pre, plain, op, calls, writes, pwrites>>
    /\ UNCHANGED parVars

SeqPush ==
    /\ n < Len0(a)
    /\ H(a, n)
    /\ Observed(push_heap_cb(St(a), n + 1))
    /\ n' = n + 1

SeqPop ==
    /\ n >= 1
    /\ H(a, n)
    /\ Observed(pop_heap_cb(St(a), n))
    /\ n' = n - 1

SeqPopAt ==
    /\ n >= 1
    /\ H(a, n)
    /\ \E k \in 0..(n - 1) : Observed(pop_heap_at_cb(St(a), n, k))
    /\ n' = n - 1

SeqUpdate ==
    /\ n >= 1
    /\ H(a, n)
    /\ \E k \in 0..(n - 1), key \in SeqKeys :
          Observed(update_heap_cb(St([a EXCEPT ![k].k = key]), n, k))
    /\ n' = n

SeqNext ==
    \/ SeqPush
    \/ SeqPop
    \/ SeqPopAt
    \/ SeqUpdate

SeqSpec == SeqInit /\ [][SeqNext]_vars

\* --------------------------------------------------- parallel_make_heap
SizeMod == 2 ^ SizeBits

\* a value stored in a size_t
ToSize(x) == x % SizeMod

\* a size_t value converted to the signed SizeType
ToSigned(x) == IF x >= SizeMod \div 2 THEN x - SizeMod ELSE x

ParKeys == 0..MaxParKey

ParRanges(L) == { [i \in 0..(L - 1) |-> Elem(ks[i], 0)] : ks \in [0..(L - 1) -> ParKeys] }

\* rolling_barrier's "done / idle" value
Sentinel == 0 - 1

\* values a barrier slot may hold before its thread first publishes
BarrierInit == {Sentinel, 0}

\* rolling_barrier::poll(i, threshold)
poll(bar, i, threshold) ==
    \A j \in DOMAIN bar : j /= i => (bar[j] < threshold \/ bar[j] = Sentinel)

\* rolling_barrier::set(i, v)
set(bar, i, v) == [bar EXCEPT ![i] = v]

\* no block taken yet
NoBlock == 0 - 1

\* locals of a thread that holds no block; lastBlock and lastFrontier are
\* history: the block index the thread took last and the frontier it
\* published last (Sentinel: none yet)
NoLocals == [processBlock |-> 0, blockFront |-> 0, blockLength |-> 0, i |-> 0,
             parent |-> 0, hole |-> 0, p |-> Elem(0, 0),
             lastBlock |-> NoBlock, lastFrontier |-> Sentinel]

At(pcv) == [pc |-> pcv] @@ NoLocals

\* thread t at pcv with its locals gone and its history kept
Past(t, pcv) == [At(pcv) EXCEPT !.lastBlock = th[t].lastBlock,
                                !.lastFrontier = th[t].lastFrontier]

\* the sequential machine is not running
SeqIdle ==
    /\ a = <<>>
    /\ n = 0
    /\ pre = <<>>
    /\ plain = <<>>
    /\ op = [name |-> "none", len |-> 0, pos |-> 0]
    /\ calls = <<>>
    /\ writes = <<>>
    /\ pwrites = <<>>
    /\ map = <<>>

ParInit ==
    /\ \E L \in 0..MaxParLen : arr \in ParRanges(L)
    /\ orig = arr
    /\ blockSize \in 1..MaxBlockSize
    /\ maxThreads \in 1..MaxThreads
    /\ nthreads = 0
    /\ blocksRemaining = 0
    /\ barrier = <<>>
    /\ call = "start"
    /\ spawned = 0
    /\ th = <<>>
    /\ sifted = {}
    /\ SeqIdle

len == Len0(arr)

processEnd == len \div 2

\* "number of blocks"
nblocks == ToSize(processEnd \div blockSize + (IF processEnd % blockSize /= 0 THEN 1 ELSE 0))

\* nthreads = (int)(std::min(nblocks, (size_t)maxThreads)); if (nthreads < 1) nthreads = 1
effective_threads ==
    LET m == IF nblocks < maxThreads THEN nblocks ELSE maxThreads IN
    IF m < 1 THEN 1 ELSE m

\* index of the calling thread
Main == nthreads - 1

\* parallel_make_heap from the barrier's construction up to the spawn loop, with
\* nt threads: the barrier and the counter are created and the calling thread
\* takes the last block
Begin(nt) ==
    LET processBlock == ToSize(nblocks - 1)
        blockFront   == ToSigned(ToSize(processBlock * blockSize))
        blockLength  == processEnd - blockFront IN
    /\ nthreads' = nt
    /\ \E v \in BarrierInit : barrier' = [t \in 0..(nt - 1) |-> v]
    /\ blocksRemaining' = processBlock
    /\ th' = [t \in 0..(nt - 1) |->
                 IF t = nt - 1
                 THEN [At("own") EXCEPT !.processBlock = processBlock,
                                        !.lastBlock = processBlock,
                                        !.blockFront = blockFront,
                                        !.blockLength = blockLength,
                                        !.parent = blockFront + blockLength - 1]
                 ELSE At("unborn")]
    /\ call' = "spawn"

\* the overload taking a comparator, up to the spawn loop
Setup ==
    /\ call = "start"
    /\ Begin(effective_threads)
    /\ UNCHANGED <<arr, orig, blockSize, maxThreads, spawned, sifted, seqVars>>

\* size_t nthreads = std::min(nblocks, (size_t)maxThreads)
unclamped_threads == IF nblocks < maxThreads THEN nblocks ELSE maxThreads

\* the overloads without a comparator and with a move callback, up to the
\* spawn loop: with no block, threads.reserve(nthreads - 1) is asked for the
\* largest size_t and throws std::length_error out of the call
SetupUnclamped ==
    /\ call = "start"
    /\ IF ToSize(unclamped_threads - 1) < SizeMod \div 2
       THEN Begin(unclamped_threads)
       ELSE /\ nthreads' = unclamped_threads
            /\ call' = "threw"
            /\ UNCHANGED <<barrier, blocksRemaining, th>>
    /\ UNCHANGED <<arr, orig, blockSize, maxThreads, spawned, sifted, seqVars>>

\* one iteration of "initialize other threads": std::thread(__thread_worker, i, ...)
Spawn ==
    /\ call = "spawn"
    /\ spawned < nthreads - 1
    /\ th' = [th EXCEPT ![spawned] = At("claim")]
    /\ spawned' = spawned + 1
    /\ UNCHANGED <<arr, orig, blockSize, maxThreads, nthreads, blocksRemaining, barrier,
                   call, sifted, seqVars>>

\* std::thread's constructor throws std::system_error in the spawn loop.  With
\* no worker created yet the exception leaves the call.  Otherwise unwinding
\* destroys `threads` while it holds joinable threads (thread_group is declared
\* after the loop) and std::terminate ends the process, workers included.
SpawnFail ==
    /\ call = "spawn"
    /\ spawned < nthreads - 1
    /\ IF spawned = 0
       THEN /\ call' = "threw"
            /\ th' = th
       ELSE /\ call' = "terminated"
            /\ th' = [t \in DOMAIN th |-> At("killed")]
    /\ UNCHANGED <<arr, orig, blockSize, maxThreads, nthreads, blocksRemaining, barrier,
                   spawned, sifted, seqVars>>

\* the spawn loop is over: thread_group takes the workers and the calling
\* thread turns to "process current block"
StartOwn ==
    /\ call = "spawn"
    /\ spawned = nthreads - 1
    /\ call' = "run"
    /\ th' = [th EXCEPT ![Main].pc = "block"]
    /\ UNCHANGED <<arr, orig, blockSize, maxThreads, nthreads, blocksRemaining, barrier,
                   spawned, sifted, seqVars>>

\* __down_block: the next __down_heap call of the block starts, moving the
\* parent's value out of its slot
SiftBegin(t) ==
    /\ t \in DOMAIN th
    /\ th[t].pc = "block"
    /\ th[t].i < th[t].blockLength
    /\ th[t].parent \in DOMAIN arr
    /\ th' = [th EXCEPT ![t].pc = "sift", ![t].hole = th[t].parent,
                        ![t].p = arr[th[t].parent]]
    /\ UNCHANGED <<arr, orig, blockSize, maxThreads, nthreads, blocksRemaining, barrier,
                   call, spawned, sifted, seqVars>>

\* __down_block reads *(first + parent) outside [first, last): undefined
\* behaviour; the range may hold anything afterwards and the call does not
\* return in an orderly way
OutOfRange(t) ==
    /\ t \in DOMAIN th
    /\ th[t].pc = "block"
    /\ th[t].i < th[t].blockLength
    /\ th[t].parent \notin DOMAIN arr
    /\ arr' \in ParRanges(len)
    /\ th' = [th EXCEPT ![t] = At("ub")]
    /\ UNCHANGED <<orig, blockSize, maxThreads, nthreads, blocksRemaining, barrier,
                   call, spawned, sifted, seqVars>>

\* mutation of sift_done: parent is not decremented
sift_done_stay(t) ==
    [th EXCEPT ![t].pc = "block", ![t].i = @ + 1, ![t].hole = 0, ![t].p = Elem(0, 0)]

\* mutation of sift_done: the block is walked upward, parent++
sift_done_up(t) ==
    [th EXCEPT ![t].pc = "block", ![t].parent = @ + 1, ![t].i = @ + 1,
               ![t].hole = 0, ![t].p = Elem(0, 0)]

\* the __down_heap call of thread t is over: parent--, i++
sift_done(t) ==
    [th EXCEPT ![t].pc = "block", ![t].parent = @ - 1, ![t].i = @ + 1,
               ![t].hole = 0, ![t].p = Elem(0, 0)]

\* __down_heap: one pass of the while loop, or the final placement
SiftStep(t) ==
    /\ t \in DOMAIN th
    /\ th[t].pc = "sift"
    /\ LET parent == th[t].hole
           child  == 2 * parent + 1
           p      == th[t].p IN
       IF child < len
       THEN LET c == second_child(arr, len, child) IN
            IF parent_greater(arr[c], p)
            THEN /\ arr' = [arr EXCEPT ![parent] = p]
                 /\ th' = sift_done(t)
                 /\ sifted' = sifted \cup {th[t].parent}
            ELSE /\ arr' = [arr EXCEPT ![parent] = arr[c]]
                 /\ th' = [th EXCEPT ![t].hole = c]
                 /\ sifted' = sifted
       ELSE /\ arr' = [arr EXCEPT ![parent] = p]
            /\ th' = sift_done(t)
            /\ sifted' = sifted \cup {th[t].parent}
    /\ UNCHANGED <<orig, blockSize, maxThreads, nthreads, blocksRemaining, barrier,
                   call, spawned, seqVars>>

\* __down_block returned: barrier.set(threadIdx, -1)
BlockEnd(t) ==
    /\ t \in DOMAIN th
    /\ th[t].pc = "block"
    /\ th[t].i >= th[t].blockLength
    /\ barrier' = set(barrier, t, Sentinel)
    /\ th' = [th EXCEPT ![t] = Past(t, "claim")]
    /\ UNCHANGED <<arr, orig, blockSize, maxThreads, nthreads, blocksRemaining,
                   call, spawned, sifted, seqVars>>

\* "safe check for negative value accounting for overflow"
underflow(processBlock) == ToSize(processBlock + nthreads) < nthreads

\* __thread_worker: processBlock = --blocksRemaining and the test that follows
Claim(t) ==
    /\ t \in DOMAIN th
    /\ th[t].pc = "claim"
    /\ LET processBlock == ToSize(blocksRemaining - 1) IN
       /\ blocksRemaining' = processBlock
       /\ IF underflow(processBlock)
          THEN /\ barrier' = set(barrier, t, Sentinel)
               /\ th' = [th EXCEPT ![t] = Past(t, "exit")]
          ELSE /\ barrier' = barrier
               /\ th' = [th EXCEPT ![t] =
                            [Past(t, "publish") EXCEPT
                                !.processBlock = processBlock,
                                !.lastBlock = processBlock,
                                !.blockFront = ToSigned(ToSize(processBlock * blockSize))]]
    /\ UNCHANGED <<arr, orig, blockSize, maxThreads, nthreads, call, spawned, sifted, seqVars>>

\* mutation of frontier: measured from the front of the range
frontier_from_front(blockFront) == blockFront - blockSize

\* the value a worker publishes for its block
frontier(blockFront) == len - blockFront - blockSize

\* the threshold a worker polls its peers with
waitFor(blockFront) == LET firstChild == 2 * blockFront + 1 IN len - firstChild - 1

\* "check that we can go": barrier.set(threadIdx, len-blockFront-blockSize)
Publish(t) ==
    /\ t \in DOMAIN th
    /\ th[t].pc = "publish"
    /\ barrier' = set(barrier, t, frontier(th[t].blockFront))
    /\ th' = [th EXCEPT ![t].pc = "poll", ![t].lastFrontier = frontier(th[t].blockFront)]
    /\ UNCHANGED <<arr, orig, blockSize, maxThreads, nthreads, blocksRemaining,
                   call, spawned, sifted, seqVars>>

\* while (!barrier.poll(threadIdx, waitFor)) yield: the poll that succeeds
PollPass(t) ==
    /\ t \in DOMAIN th
    /\ th[t].pc = "poll"
    /\ poll(barrier, t, waitFor(th[t].blockFront))
    /\ th' = [th EXCEPT ![t].pc = "block", ![t].blockLength = blockSize,
                        ![t].parent = th[t].blockFront + blockSize - 1, ![t].i = 0]
    /\ UNCHANGED <<arr, orig, blockSize, maxThreads, nthreads, blocksRemaining, barrier,
                   call, spawned, sifted, seqVars>>

\* the calling thread's __thread_worker returned; thread_group joins every
\* worker and parallel_make_heap returns
Join ==
    /\ call = "run"
    /\ \A t \in DOMAIN th : th[t].pc = "exit"
    /\ call' = "returned"
    /\ UNCHANGED <<arr, orig, blockSize, maxThreads, nthreads, blocksRemaining, barrier,
                   spawned, th, sifted, seqVars>>

\* a step of thread t
ThreadStep(t) ==
    \/ SiftBegin(t)
    \/ OutOfRange(t)
    \/ SiftStep(t)
    \/ BlockEnd(t)
    \/ Claim(t)
    \/ Publish(t)
    \/ PollPass(t)

\* a step of the calling thread in parallel_make_heap's own frame
MainStep ==
    \/ Setup
    \/ SetupUnclamped
    \/ Spawn
    \/ SpawnFail
    \/ StartOwn
    \/ Join

ParNext ==
    \/ MainStep
    \/ \E t \in 0..(MaxThreads - 1) : ThreadStep(t)

ParSpec == ParInit /\ [][ParNext]_vars

\* every thread that can take a step eventually takes one
ParFair ==
    /\ ParSpec
    /\ WF_vars(MainStep)
    /\ \A t \in 0..(MaxThreads - 1) : WF_vars(ThreadStep(t))

\* ------------------------------------------------------------------ claims
\* number of slots of [0, m) that hold element e
Count(s, m, e) == Cardinality({ i \in 0..(m - 1) : s[i] = e })

\* [0, m) of s and of t hold the same multiset
SameMultiset(s, t, m) ==
    \A i \in 0..(m - 1) :
        /\ Count(s, m, s[i]) = Count(t, m, s[i])
        /\ Count(s, m, t[i]) = Count(t, m, t[i])

\* number of entries of sequence q equal to x
Occurs(q, x) == Cardinality({ i \in DOMAIN q : q[i] = x })

\* slot q is slot x or an ancestor of it in the implicit tree
RECURSIVE AncestorOrSelf(_, _)
AncestorOrSelf(q, x) ==
    IF x = q THEN TRUE
    ELSE IF x <= q THEN FALSE
    ELSE AncestorOrSelf(q, (x - 1) \div 2)

\* slots a block may read or write: its parents and everything below them
Footprint(blockFront, blockLength) ==
    { x \in DOMAIN arr :
        \E q \in blockFront..(blockFront + blockLength - 1) : AncestorOrSelf(q, x) }

\* thread t is inside __down_block with work left
InDownBlock(t) ==
    \/ th[t].pc = "sift"
    \/ th[t].pc = "block" /\ th[t].i < th[t].blockLength

C4_Terminates == call \in {"returned", "threw", "terminated"} \/ ENABLED ParNext

\* the barrier part of C4 on its own: while a thread is in the poll loop some
\* thread can take a step
C4_NoPollStall == (\E t \in DOMAIN th : th[t].pc = "poll") => ENABLED ParNext

\* C4 as a temporal property of the fair specification ParFair
C4_EventuallyReturns == <>(call \in {"returned", "threw", "terminated"})

\* C5: make_heap returns with H holding on [first, last): for every 0 < i < n,
\* lt(a[(i-1)/2], a[i]) is false, and is_heap returns true.
C5_MakeHeapIsHeap ==
    op.name = "make_heap" => H(plain, op.len) /\ is_heap(plain, op.len)

\* make_heap rearranged a range of at least four elements that was no heap
C5_Witness ==
    /\ op.name = "make_heap"
    /\ op.len >= 4
    /\ ~H(pre, op.len)
    /\ Len(pwrites) >= 3
    /\ plain /= pre

\* C6: positional pop_heap on a heap of length n at any 0 <= k < n leaves
\* a[n-1] equal to the original a[k], H on [0, n-1), and in [0, n-1) exactly the
\* original multiset minus the original a[k].
C6_PopAt ==
    op.name = "pop_heap_at" =>
        /\ plain[op.len - 1] = pre[op.pos]
        /\ H(plain, op.len - 1)
        /\ \A i \in 0..(op.len - 1) :
              Count(plain, op.len - 1, pre[i])
                 = Count(pre, op.len, pre[i]) - (IF pre[i] = pre[op.pos] THEN 1 ELSE 0)

\* an inner position was popped and the former tail moved up past its parent
C6_Witness ==
    /\ op.name = "pop_heap_at"
    /\ op.pos > 0
    /\ op.pos < op.len - 1
    /\ plain[(op.pos - 1) \div 2] = pre[op.len - 1]

\* C7: after any external edit of a[k] in a heap, update_heap returns with H on
\* the whole range and the sequence holds exactly the multiset of the edited one.
C7_Update ==
    op.name = "update_heap" => H(plain, op.len) /\ SameMultiset(plain, pre, op.len)

\* an edited key two levels down rose to the root
C7_Witness ==
    /\ op.name = "update_heap"
    /\ op.pos >= 3
    /\ plain[0] = pre[op.pos]
    /\ ~H(pre, op.len)

SlotBefore(j, h) ==
    LET earlier == { i \in 1..(j - 1) : calls[i].v.h = h } IN
    IF earlier = {}
    THEN CHOOSE x \in DOMAIN pre : pre[x].h = h
    ELSE calls[CHOOSE i \in earlier : \A i2 \in earlier : i2 <= i].to

\* C9: in every observer variant each write of a value into a slot is reported
\* by exactly one moved(value, from, to) with to the slot written and from the
\* slot the value held before; nothing is unreported or reported twice.
C9_WritesReported ==
    op.name /= "init" =>
        /\ \A w \in DOMAIN writes :
              Occurs(writes, writes[w])
                 = Cardinality({ j \in DOMAIN calls :
                                   calls[j].to = writes[w][1] /\ calls[j].v = writes[w][2] })
        /\ \A j \in DOMAIN calls :
              /\ calls[j].from = SlotBefore(j, calls[j].v.h)
              /\ calls[j].from /= calls[j].to => <<calls[j].to, calls[j].v>> \in
                                                  { writes[w] : w \in DOMAIN writes }

\* a pop whose sift moved two children up, placed the tail and reported the root
C9_Witness ==
    /\ op.name = "pop_heap"
    /\ Len(writes) = 4
    /\ Len(calls) = 4
    /\ calls[4].from = 0
    /\ calls[4].to = op.len - 1

\* C10: pop_heap on a heap of length n >= 1 leaves the former root in a[n-1],
\* with no element of a[0..n-1) greater than it, and H on [0, n-1).
C10_PopHeap ==
    op.name = "pop_heap" =>
        /\ plain[op.len - 1] = pre[0]
        /\ \A i \in 0..(op.len - 2) : ~compare(plain[op.len - 1], plain[i])
        /\ H(plain, op.len - 1)

\* the displaced tail sank two levels
C10_Witness ==
    /\ op.name = "pop_heap"
    /\ op.len >= 5
    /\ \E i \in 3..(op.len - 2) : plain[i] = pre[op.len - 1]

\* C11: push_heap on a range of length n >= 1 whose prefix of length n-1 is a
\* heap returns with H on the whole range and the range a permutation of its
\* input, whether the tail is greater than, equal to or less than its ancestors.
C11_PushHeap ==
    op.name = "push_heap" => H(plain, op.len) /\ SameMultiset(plain, pre, op.len)

\* a tail greater than its parent and equal to its grandparent rose one level
C11_Witness ==
    /\ op.name = "push_heap"
    /\ op.len >= 4
    /\ LET parent == (op.len - 2) \div 2 IN
       /\ compare(pre[parent], pre[op.len - 1])
       /\ pre[(parent - 1) \div 2].k = pre[op.len - 1].k
       /\ plain[parent] = pre[op.len - 1]
       /\ plain[op.len - 1] = pre[parent]

\* C12: for any input range, duplicates included, make_heap followed by
\* sort_heap leaves the range in ascending order (for all i < j, lt(a[j], a[i])
\* is false) and a permutation of the original input.
C12_HeapSort ==
    op.name = "heap_sort" =>
        /\ \A i \in 0..(op.len - 1), j \in 0..(op.len - 1) :
              i < j => ~compare(plain[j], plain[i])
        /\ SameMultiset(plain, pre, op.len)

\* a range of five or more with repeated keys that was neither sorted nor a heap
C12_Witness ==
    /\ op.name = "heap_sort"
    /\ op.len >= 5
    /\ ~H(pre, op.len)
    /\ \E i \in 0..(op.len - 2) : compare(pre[i + 1], pre[i])
    /\ \E i \in 0..(op.len - 1), j \in 0..(op.len - 1) : i /= j /\ pre[i].k = pre[j].k
    /\ plain /= pre

\* C13: every observer-variant pop on a non-empty range (root pop, and
\* positional pop at any pos) ends with exactly one terminal notification
\* moved(a[last-1], origin, last-1), origin 0 for the root pop and pos-first for
\* the positional pop; it is the last callback and is made whether or not a
\* sift occurred (length 1 and pos = last-1 included).
C13_TerminalMove ==
    op.name \in {"pop_heap", "pop_heap_at"} =>
        /\ Len(calls) >= 1
        /\ calls[Len(calls)] = [v |-> a[op.len - 1], from |-> op.pos, to |-> op.len - 1]
        /\ Cardinality({ j \in DOMAIN calls : calls[j].to = op.len - 1 }) = 1

\* the last position of a heap of two or more was popped: no sift, one call
C13_Witness ==
    /\ op.name = "pop_heap_at"
    /\ op.len >= 2
    /\ op.pos = op.len - 1
    /\ writes = <<>>
    /\ Len(calls) = 1
    /\ calls[1].from = op.pos

\* an inner position was popped with a sift and the landing reported last
C13_WitnessSift ==
    /\ op.name = "pop_heap_at"
    /\ op.pos > 0
    /\ op.pos < op.len - 1
    /\ Len(calls) >= 3
    /\ calls[Len(calls)].from = op.pos

\* the observer-variant push_heap call needed no sift: length 1, or the new
\* tail not greater than its parent
NoSiftPush ==
    \/ op.len = 1
    \/ ~compare(pre[(op.len - 2) \div 2], pre[op.len - 1])

\* C14: when observer-variant push_heap needs no sift, every slot is left
\* unchanged and the observer is invoked exactly once, as
\* moved(a[last-1], last-1, last-1); when a sift is needed the new element is
\* still reported exactly once, with from = last-1.
C14_PushReports ==
    op.name = "push_heap" =>
        LET tail == pre[op.len - 1]
            mine == { j \in DOMAIN calls : calls[j].v = tail } IN
        /\ NoSiftPush =>
              /\ a = pre
              /\ writes = <<>>
              /\ calls = << [v |-> a[op.len - 1], from |-> op.len - 1, to |-> op.len - 1] >>
        /\ ~NoSiftPush =>
              /\ Cardinality(mine) = 1
              /\ \A j \in mine : calls[j].from = op.len - 1

\* a tail equal to its parent was pushed onto a heap of three or more
C14_Witness ==
    /\ op.name = "push_heap"
    /\ op.len >= 4
    /\ pre[(op.len - 2) \div 2].k = pre[op.len - 1].k
    /\ Len(calls) = 1

\* a tail that rose two levels was reported once, from last-1 to the root
C14_WitnessSift ==
    /\ op.name = "push_heap"
    /\ op.len >= 4
    /\ Len(calls) = 3
    /\ calls[3] = [v |-> pre[op.len - 1], from |-> op.len - 1, to |-> 0]

\* C15: on an empty range every operation completes without reading or
\* writing a slot and without handing the observer a slot index outside the
\* range, and leaves the range empty; is_heap returns true.
C15_EmptyRange ==
    op.name /= "init" =>
        /\ a = pre
        /\ plain = pre
        /\ writes = <<>>
        /\ pwrites = <<>>
        /\ \A j \in DOMAIN calls :
              /\ calls[j].from \in 0..(op.len - 1)
              /\ calls[j].to \in 0..(op.len - 1)
        /\ is_heap(a, op.len)

\* the parallel part of C15: the build of an empty range never reads outside it
C15_EmptyParallel ==
    len = 0 => \A t \in DOMAIN th : th[t].pc /= "ub"

\* C16: on a singleton range every operation, parallel_make_heap with any
\* blockSize >= 1 and maxThreads >= 1 included, completes while accessing only
\* slot 0 and leaves the single element in place.  Stated for the parallel
\* build: no thread reads outside the range and the element stays put.
C16_Singleton ==
    len = 1 =>
        /\ \A t \in DOMAIN th : th[t].pc /= "ub"
        /\ arr = orig

\* the sequential part of C16: a call on a range of length 1 touches slot 0
\* only and leaves the element in place
C16_SingletonSequential ==
    (op.name /= "init" /\ op.len = 1) =>
        /\ a = pre
        /\ plain = pre
        /\ \A w \in DOMAIN writes : writes[w][1] = 0
        /\ \A w \in DOMAIN pwrites : pwrites[w][1] = 0
        /\ \A j \in DOMAIN calls : calls[j].from = 0 /\ calls[j].to = 0
        /\ H(a, 1)

\* the keys of a range, slot by slot
KeysOf(s) == [i \in DOMAIN s |-> s[i].k]

\* the three-element range x, y, z
Ints(x, y, z) == [i \in 0..2 |-> <<x, y, z>>[i + 1]]

\* C17 as stated: with the default less-than on integers, push_heap applied to
\* the range [3, 7, 9] yields [9, 3, 7].
C17_PushExample ==
    (op.name = "push_heap_default" /\ KeysOf(pre) = Ints(3, 7, 9)) =>
        KeysOf(plain) = Ints(9, 3, 7)

\* C17 amended: push_heap applied to [3, 7, 9] yields [9, 7, 3]: the tail 9
\* changes places with the root 3 and slot 1 is not touched.  [9, 3, 7] is what
\* push_heap yields on [7, 3, 9], the range whose prefix [7, 3] is a heap.
C17_PushExampleActual ==
    op.name = "push_heap_default" =>
        /\ KeysOf(pre) = Ints(3, 7, 9) => KeysOf(plain) = Ints(9, 7, 3)
        /\ KeysOf(pre) = Ints(7, 3, 9) => KeysOf(plain) = Ints(9, 3, 7)

\* push_heap ran on [3, 7, 9] and wrote slots 2 and 0
C17_Witness ==
    /\ op.name = "push_heap_default"
    /\ KeysOf(pre) = Ints(3, 7, 9)
    /\ Len(pwrites) = 2

\* min(nblocks, maxThreads), and at least 1
ClampedThreads ==
    LET m == IF nblocks < maxThreads THEN nblocks ELSE maxThreads IN
    IF m >= 1 THEN m ELSE 1

\* C18: in every overload of parallel_make_heap, for every n >= 0,
\* blockSize >= 1 and maxThreads >= 1, the thread count that sizes the barrier
\* and the worker list is min(nblocks, maxThreads) clamped to at least 1, so
\* the number of workers nthreads - 1 is never negative or wrapped.
C18_ThreadCount ==
    call /= "start" =>
        /\ nthreads = ClampedThreads
        /\ ToSize(nthreads - 1) = nthreads - 1

\* the part of C18 that holds: an overload that gets as far as the spawn loop
\* runs with the clamped count
C18_ClampedWhenRunning ==
    call \in {"spawn", "run", "returned"} => nthreads = ClampedThreads

\* workers that have been joined: thread_group joins them all when the call's
\* block is left in the ordinary way, and nothing joins one before that
JoinedWorkers == IF call = "returned" THEN 0..(spawned - 1) ELSE {}

\* C19: if creating the k-th worker fails, the failure reaches the caller only
\* after every worker spawned before it has been joined; on no path does the
\* failure leave the call while a spawned worker is still unjoined.
C19_JoinBeforeFailure ==
    call \in {"threw", "terminated"} => 0..(spawned - 1) \subseteq JoinedWorkers

\* the smallest index i in (0, m) with lt(s[(i-1)/2], s[i]), or m if there is none
FirstViolation(s, m) ==
    LET bad == { i \in 1..(m - 1) : compare(s[(i - 1) \div 2], s[i]) } IN
    IF bad = {} THEN m ELSE CHOOSE i \in bad : \A i2 \in bad : i <= i2

\* C20: is_heap_until returns the smallest index i in (0, n) with
\* lt(a[(i-1)/2], a[i]) true, or last if there is none; is_heap returns true
\* iff that result is last; neither modifies the sequence.
C20_IsHeapUntil ==
    op.name = "is_heap_until" =>
        /\ op.pos = FirstViolation(a, op.len)
        /\ is_heap(a, op.len) <=> (op.pos = op.len)
        /\ is_heap(a, op.len) <=> H(a, op.len)
        /\ a = pre

\* the first violation is at a second child, index 4, and a later one follows
C20_Witness ==
    /\ op.name = "is_heap_until"
    /\ op.len = 6
    /\ op.pos = 4
    /\ compare(a[2], a[5])

\* C21 as stated: make_heap applied to a range that already satisfies H leaves
\* H holding and the sequence of values in the slots unchanged.
C21_MakeHeapNoOp ==
    (op.name = "make_heap" /\ H(pre, op.len)) =>
        /\ H(plain, op.len)
        /\ plain = pre

\* C21 amended: make_heap applied to a range that already satisfies H leaves H
\* holding and every slot holding a value equivalent under the comparator to
\* the one it held; values that compare equivalent may change places.
C21_MakeHeapKeepsKeys ==
    (op.name = "make_heap" /\ H(pre, op.len)) =>
        /\ H(plain, op.len)
        /\ KeysOf(plain) = KeysOf(pre)
        /\ SameMultiset(plain, pre, op.len)

\* make_heap ran on a heap of four or more and exchanged a parent with an
\* equivalent child
C21_Witness ==
    /\ op.name = "make_heap"
    /\ op.len >= 4
    /\ H(pre, op.len)
    /\ plain /= pre
    /\ \E i \in 1..(op.len - 1) : plain[(i - 1) \div 2] = pre[i]

\* thread t holds a block: it has claimed one and has not yet finished it
HoldsBlock(t) == th[t].pc \in {"own", "publish", "poll", "block", "sift"}

\* the state part of C22: blocks held at the same time are different blocks of
\* [0, nblocks), none of them still to be handed out by the counter (which
\* stays below nblocks until it wraps); a sift
\* starts at an internal node that no sift has started at before; no block
\* reaches outside [0, n/2); and on return every internal node has been sifted
C22_State ==
    len >= 2 =>
        /\ \A t \in DOMAIN th :
              HoldsBlock(t) =>
                  /\ th[t].processBlock \in 0..(nblocks - 1)
                  /\ blocksRemaining < nblocks => th[t].processBlock >= blocksRemaining
                  /\ \A t2 \in DOMAIN th :
                        (t2 /= t /\ HoldsBlock(t2)) =>
                            th[t2].processBlock /= th[t].processBlock
        /\ \A t \in DOMAIN th :
              th[t].pc = "sift" =>
                  /\ th[t].parent \in 0..(processEnd - 1)
                  /\ th[t].parent \notin sifted
                  /\ th[t].parent \div blockSize = th[t].processBlock
                  /\ \A t2 \in DOMAIN th :
                        (t2 /= t /\ th[t2].pc = "sift") => th[t2].parent /= th[t].parent
        /\ \A t \in DOMAIN th :
              (th[t].pc = "block" /\ t /= Main) => th[t].blockLength = blockSize
        /\ \A t \in DOMAIN th : th[t].pc /= "ub"
        /\ sifted \subseteq 0..(processEnd - 1)
        /\ call = "returned" => sifted = 0..(processEnd - 1)

\* the step part of C22: the counter hands out each block once, counting down
\* by one, and the thread that takes the step gets the block it then shows
C22_Step ==
    (len >= 2 /\ call /= "start" /\ blocksRemaining' /= blocksRemaining) =>
        /\ blocksRemaining' = ToSize(blocksRemaining - 1)
        /\ \A t \in DOMAIN th :
              (th'[t] /= th[t] /\ HoldsBlock(t)') =>
                  /\ th'[t].processBlock = blocksRemaining'
                  /\ blocksRemaining' < blocksRemaining

\* C22: in parallel_make_heap with n >= 2, across all threads and
\* interleavings, every block index in [0, nblocks) is claimed by exactly one
\* thread and every internal node in [0, n/2) is the starting hole of exactly
\* one sift-down; no sift-down starts at an index < 0 or >= n/2; only the
\* calling thread's first block may be partial.
C22_Partition == [](C22_State) /\ [][C22_Step]_vars

\* three threads have returned from a build in which each of them sifted
C22_Witness ==
    /\ call = "returned"
    /\ nthreads = 3
    /\ blockSize = 1
    /\ sifted = 0..2

\* C23: once blocksRemaining has reached zero, every later decrement by any
\* thread is recognised as underflow: the thread takes no block, publishes -1
\* and exits; no wrapped counter value is ever used as a block index.
C23_NoWrappedBlock ==
    \A t \in DOMAIN th :
        /\ HoldsBlock(t) => th[t].processBlock \in 0..(nblocks - 1)
        /\ th[t].pc = "exit" => barrier[t] = Sentinel

\* the part of C23 that holds: in __thread_worker a decrement of a counter
\* that is zero or has wrapped sends the thread to its exit with -1 published
C23_WorkerUnderflow ==
    \A t \in DOMAIN th :
        (/\ call = "run"
         /\ th[t].pc = "claim"
         /\ th'[t] /= th[t]
         /\ (blocksRemaining = 0 \/ blocksRemaining >= nblocks)) =>
            /\ th'[t].pc = "exit"
            /\ barrier'[t] = Sentinel

\* C23_WorkerUnderflow as a property of every step
C23_WorkerLoop == [][len >= 2 => C23_WorkerUnderflow]_vars

\* a step of C24: a thread enters __down_block only from a poll that returned
\* true with its frontier for that block in its slot, and leaves a finished
\* block with -1 in its slot
C24_Step ==
    \A t \in DOMAIN th :
        t \in DOMAIN th' =>
            /\ (th[t].pc \notin {"block", "sift"} /\ th'[t].pc = "block") =>
                  /\ th[t].pc = "poll"
                  /\ barrier[t] = frontier(th[t].blockFront)
                  /\ poll(barrier, t, waitFor(th[t].blockFront))
            /\ (th[t].pc = "block" /\ th'[t].pc = "claim") => barrier'[t] = Sentinel

\* C24: no thread executes down_block on a block unless it has first published
\* its frontier for that block and then observed poll return true, and after
\* the block it publishes -1 before claiming another; the first block taken by
\* the calling thread included.  Stated for the builds that have a block to
\* take (n >= 2).
C24_PublishPollRun == [][len >= 2 => C24_Step]_vars

\* the part of C24 that holds: the blocks taken in __thread_worker
C24_WorkerBlocks ==
    [][\A t \in DOMAIN th :
          (t \in DOMAIN th' /\ th[t].pc \notin {"block", "sift", "own"} /\ th'[t].pc = "block")
              => /\ th[t].pc = "poll"
                 /\ barrier[t] = frontier(th[t].blockFront)
                 /\ poll(barrier, t, waitFor(th[t].blockFront))]_vars

\* thread t takes a block in this step, after an earlier one: the new index is
\* strictly smaller
BlocksDecrease(t) ==
    (th[t].pc = "claim" /\ th'[t].pc = "publish" /\ th[t].lastBlock /= NoBlock) =>
        th'[t].lastBlock < th[t].lastBlock

\* thread t publishes a frontier in this step, after an earlier one and the -1
\* that followed it: the new frontier is strictly smaller
FrontiersDecrease(t) ==
    (th[t].pc = "publish" /\ th'[t].pc = "poll" /\ th[t].lastFrontier /= Sentinel) =>
        /\ barrier'[t] = th'[t].lastFrontier
        /\ th'[t].lastFrontier < th[t].lastFrontier

\* C25: for each thread the block indices it claims are strictly decreasing
\* over time, and each non-sentinel frontier it publishes after having
\* published -1 is strictly smaller than the frontier it published before
\* that -1.
C25_Monotone ==
    [][\A t \in DOMAIN th :
          t \in DOMAIN th' => BlocksDecrease(t) /\ FrontiersDecrease(t)]_vars

\* the part of C25 that holds: the block indices
C25_BlocksDecrease ==
    [][\A t \in DOMAIN th : t \in DOMAIN th' => BlocksDecrease(t)]_vars

\* what the frontiers do instead: each is strictly larger than the one before
C25_FrontiersIncrease ==
    [][\A t \in DOMAIN th :
          (/\ t \in DOMAIN th'
           /\ th[t].pc = "publish"
           /\ th'[t].pc = "poll"
           /\ th[t].lastFrontier /= Sentinel) => th'[t].lastFrontier > th[t].lastFrontier]_vars

\* a step of C26: a slot that changes is the slot of the thread taking the
\* step and gets -1 or a non-negative value; what a thread publishes on its
\* way to the poll loop is len - blockFront - blockSize for its block
C26_Step ==
    call /= "start" =>
        \A i \in DOMAIN barrier :
            /\ barrier'[i] /= barrier[i] =>
                  /\ th'[i] /= th[i]
                  /\ \A j \in DOMAIN th : j /= i => th'[j] = th[j]
                  /\ barrier'[i] = Sentinel \/ barrier'[i] >= 0
            /\ (th[i].pc = "publish" /\ th'[i].pc = "poll") =>
                  /\ barrier'[i] = len - th[i].blockFront - blockSize
                  /\ barrier'[i] >= 0
            /\ (th[i].pc = "block" /\ th'[i].pc = "claim") => barrier'[i] = Sentinel

\* C26: every value a thread publishes to its barrier slot is the sentinel -1
\* or a non-negative frontier len - blockFront - blockSize, and each slot is
\* written only by the thread whose index it is (the calling thread writes
\* slot nthreads-1).
C26_PublishedValues == [][C26_Step]_vars

\* the calling thread and a worker both have a frontier in their slots
C26_Witness ==
    /\ nthreads >= 2
    /\ barrier[Main] > 0
    /\ th[Main].pc = "sift"
    /\ \E i \in DOMAIN barrier : i /= Main /\ barrier[i] > barrier[Main] /\ th[i].pc = "poll"

\* update_heap took its sift-down branch at a slot that has two children
DownAtTwoChildren ==
    /\ op.name = "update_heap"
    /\ ~(op.pos > 0 /\ compare(pre[CDiv(op.pos - 1, 2)], pre[op.pos]))
    /\ 2 * op.pos + 2 < op.len

\* the first step of that sift acted on candidate child c: c was moved into the
\* hole and reported, or, being less than the displaced value, ended the sift
FirstCandidate(c) ==
    IF compare(pre[c], pre[op.pos])
    THEN /\ calls[1] = [v |-> pre[op.pos], from |-> op.pos, to |-> op.pos]
         /\ pwrites[1] = <<op.pos, pre[op.pos]>>
    ELSE /\ calls[1] = [v |-> pre[c], from |-> c, to |-> op.pos]
         /\ pwrites[1] = <<op.pos, pre[c]>>

\* C27 as stated: when lt(left, right) is false (the two children equal in
\* particular) the right child is the candidate of the sift-down step.
C27_RightUnlessLess ==
    (DownAtTwoChildren /\ ~compare(pre[2 * op.pos + 1], pre[2 * op.pos + 2]))
        => FirstCandidate(2 * op.pos + 2)

\* C27 as the code has it: the right child is the candidate only when
\* lt(left, right) is true; when it is false (the two children equal in
\* particular) the left child is the candidate.
C27_LeftUnlessLess ==
    DownAtTwoChildren =>
        IF compare(pre[2 * op.pos + 1], pre[2 * op.pos + 2])
        THEN FirstCandidate(2 * op.pos + 2)
        ELSE FirstCandidate(2 * op.pos + 1)

\* two equivalent children above the displaced value: the left one was moved
C27_Witness ==
    /\ DownAtTwoChildren
    /\ pre[2 * op.pos + 1].k = pre[2 * op.pos + 2].k
    /\ compare(pre[op.pos], pre[2 * op.pos + 1])
    /\ calls[1].from = 2 * op.pos + 1
    /\ a[op.pos] = pre[2 * op.pos + 1]

\* update_heap took its sift-down branch: one __down_heap call from op.pos
\* with the displaced value pre[op.pos]
DownCase ==
    /\ op.name = "update_heap"
    /\ ~(op.pos > 0 /\ compare(pre[CDiv(op.pos - 1, 2)], pre[op.pos]))

\* the candidate child of slot h in the range before the call
Candidate(h) ==
    IF 2 * h + 2 < op.len /\ compare(pre[2 * h + 1], pre[2 * h + 2])
    THEN 2 * h + 2 ELSE 2 * h + 1

\* both variants made the same k writes, all but the last a move of a child up
\* into the hole above it, each reported as made; the last places p
DownTrace ==
    /\ Len(pwrites) >= 1
    /\ Len(writes) = Len(pwrites)
    /\ Len(calls) = Len(pwrites)
    /\ \A j \in 1..Len(pwrites) :
          /\ writes[j] = pwrites[j]
          /\ calls[j].to = pwrites[j][1]
          /\ calls[j].v = pwrites[j][2]
    /\ pwrites[1][1] = op.pos
    /\ \A j \in 1..(Len(pwrites) - 1) :
          /\ calls[j].from \in {2 * calls[j].to + 1, 2 * calls[j].to + 2}
          /\ pwrites[j][2] = pre[calls[j].from]
          /\ pwrites[j + 1][1] = calls[j].from
    /\ pwrites[Len(pwrites)][2] = pre[op.pos]

\* C28 as stated: sift_down moves a child into the hole only if it is strictly
\* greater than the displaced value p, and stops as soon as p is not less than
\* the larger child (an equivalent child is not moved) or there is no child.
C28_MovesOnlyGreater ==
    DownCase =>
        /\ DownTrace
        /\ \A j \in 1..(Len(pwrites) - 1) : compare(pre[op.pos], pwrites[j][2])
        /\ LET h == pwrites[Len(pwrites)][1] IN
              \A c \in {2 * h + 1, 2 * h + 2} :
                  c < op.len => ~compare(pre[op.pos], pre[c])

\* C28 as the code has it: sift_down moves the candidate child into the hole
\* unless it is strictly less than the displaced value p, so a child
\* equivalent to p is moved and reported; it stops, placing p in the current
\* hole, at the first candidate that is less than p or when there is no child.
C28_MovesUnlessLess ==
    DownCase =>
        /\ DownTrace
        /\ \A j \in 1..(Len(pwrites) - 1) :
              /\ calls[j].from = Candidate(calls[j].to)
              /\ ~compare(pwrites[j][2], pre[op.pos])
        /\ LET h == pwrites[Len(pwrites)][1] IN
              2 * h + 1 >= op.len \/ compare(pre[Candidate(h)], pre[op.pos])

\* a child equivalent to the displaced value was moved up and reported, and
\* the sift then stopped above a smaller child
C28_Witness ==
    /\ DownCase
    /\ Len(pwrites) >= 2
    /\ pwrites[1][2].k = pre[op.pos].k
    /\ calls[1].v.k = pre[op.pos].k
    /\ calls[1].from /= op.pos
    /\ 2 * pwrites[Len(pwrites)][1] + 1 < op.len

\* update_heap took its sift-up branch: one __up_heap call from op.pos
UpCase ==
    /\ op.name = "update_heap"
    /\ op.pos > 0
    /\ compare(pre[CDiv(op.pos - 1, 2)], pre[op.pos])

\* the last notification of the sift places the displaced value pre[op.pos],
\* with its origin op.pos, in the hole the last move vacated; the ones before
\* it report the element each of them moved
PlacementLast ==
    /\ Len(calls) >= 1
    /\ calls[Len(calls)].v = pre[op.pos]
    /\ calls[Len(calls)].from = op.pos
    /\ calls[Len(calls)].to = (IF Len(calls) >= 2 THEN calls[Len(calls) - 1].from ELSE op.pos)
    /\ a[calls[Len(calls)].to] = pre[op.pos]
    /\ \A j \in 1..(Len(calls) - 1) : calls[j].v = pre[calls[j].from]

\* C29 as stated: the destination slots of the successive move notifications
\* of a sift_down decrease, those of a sift_up increase; the notification of
\* the final placement is the last one and targets the last vacated hole.
C29_OrderAsStated ==
    /\ DownCase =>
          /\ PlacementLast
          /\ \A j \in 1..(Len(calls) - 2) : calls[j + 1].to < calls[j].to
    /\ UpCase =>
          /\ PlacementLast
          /\ \A j \in 1..(Len(calls) - 2) : calls[j + 1].to > calls[j].to

\* C29 as the code has it: in a sift_down each child moves up into its
\* parent's slot and the destination slots of the successive notifications
\* increase (the hole travels toward the leaves); in a sift_up each parent
\* moves down into its child's slot and the destination slots decrease (the
\* hole travels toward the root); in both the notification of the final
\* placement is the last one and targets the last vacated hole.
C29_OrderOfMoves ==
    /\ DownCase =>
          /\ PlacementLast
          /\ \A j \in 1..(Len(calls) - 1) : calls[j].from > calls[j].to
          /\ \A j \in 1..(Len(calls) - 2) :
                calls[j + 1].to > calls[j].to /\ calls[j + 1].to = calls[j].from
    /\ UpCase =>
          /\ PlacementLast
          /\ \A j \in 1..(Len(calls) - 1) : calls[j].from = CDiv(calls[j].to - 1, 2)
          /\ \A j \in 1..(Len(calls) - 2) :
                calls[j + 1].to < calls[j].to /\ calls[j + 1].to = calls[j].from

\* a sift_down that moved two children up before placing the displaced value
C29_Witness ==
    /\ DownCase
    /\ Len(calls) = 3
    /\ calls[1].to = 0
    /\ calls[2].to \in {1, 2}
    /\ calls[3].to > calls[2].to

\* a sift_up that moved two parents down before placing the displaced value
C29_WitnessUp ==
    /\ UpCase
    /\ Len(calls) = 3
    /\ calls[3].to = 0
    /\ calls[1].to = op.pos

\* C30: for every operation (make_heap, push_heap, pop_heap, positional
\* pop_heap, sort_heap, update_heap, and make_heap followed by sort_heap) on an
\* input meeting its precondition, the observer variant and the observer-free
\* variant leave the same final arrangement and make the same slot
\* assignments in the same order; the observer only adds notifications.
C30_SameArrangement ==
    op.name \in {"make_heap", "push_heap", "pop_heap", "pop_heap_at",
                 "sort_heap", "update_heap", "heap_sort"} =>
        /\ a = plain
        /\ writes = pwrites

\* a positional pop that sifted the displaced value up one level, reported by
\* the observer variant and made alike by both
C30_Witness ==
    /\ op.name = "pop_heap_at"
    /\ op.pos >= 3
    /\ op.pos < op.len - 1
    /\ a[CDiv(op.pos - 1, 2)] = pre[op.len - 1]
    /\ a /= pre
    /\ Len(calls) >= 3
    /\ Len(pwrites) >= 3
    /\ plain = a

\* sequential make_heap stopped early: the sift-downs of parents m/2 - 1 down
\* to k have been made on s, in that order
RECURSIVE SiftedDownTo(_, _, _, _)
SiftedDownTo(st, m, parent, k) ==
    IF parent > k
    THEN SiftedDownTo(down_heap(st, m, parent - 1, st.a[parent - 1]), m, parent - 1, k)
    ELSE st

\* a parallel build of a range of two or more with maxThreads = 1 is running
OneThread == maxThreads = 1 /\ len >= 2 /\ call \in {"spawn", "run", "returned"}

\* C31: with maxThreads = 1 and n >= 2, for any blockSize, the only thread is
\* the calling thread; a poll it makes succeeds at once; the parents it has
\* sifted are always k .. n/2-1 for some k with k-1 the parent it sifts next,
\* and between sifts the range is what sequential make_heap has after the same
\* sifts; on return the arrangement is that of sequential make_heap.
C31_SingleThread ==
    OneThread =>
        /\ nthreads = 1
        /\ DOMAIN th = {0}
        /\ th[0].pc \notin {"ub", "killed"}
        /\ th[0].pc = "poll" => poll(barrier, 0, waitFor(th[0].blockFront))
        /\ \E k \in 0..processEnd :
              /\ sifted = k..(processEnd - 1)
              /\ th[0].pc = "sift" => th[0].parent = k - 1
              /\ (th[0].pc \in {"own", "block"} /\ th[0].i < th[0].blockLength)
                    => th[0].parent = k - 1
              /\ th[0].pc /= "sift" => arr = SiftedDownTo(St(orig), len, processEnd, k).a
        /\ call = "returned" =>
              /\ sifted = 0..(processEnd - 1)
              /\ arr = make_heap(St(orig), len).a

\* one thread built a range of six in blocks of two: its own partial block,
\* then a block it published and polled for; the keys were rearranged
C31_Witness ==
    /\ OneThread
    /\ call = "returned"
    /\ len = 6
    /\ blockSize = 2
    /\ th[0].lastBlock = 0
    /\ th[0].lastFrontier = 4
    /\ arr /= orig
    /\ arr = make_heap(St(orig), len).a

====
